---- MODULE Spec2Model ----
(***************************************************************************)
(* Model of the mention-to-response bridge of src/src/main.rs:             *)
(* LLMClient::get_response and MentionHandler::handle_event, with the      *)
(* tasks that handle_event spawns, the LLM endpoint and the chat client as *)
(* the environment.                                                        *)
(***************************************************************************)
EXTENDS Naturals, Sequences, FiniteSets

\* Number of webhook events delivered in one run.
MaxEvents == 2

EventIds == 1..MaxEvents

(***************************************************************************)
(* Strings of the source.  The two user-facing messages are Japanese in    *)
(* the source; they are transliterated here, and they differ in the source *)
(* exactly as they differ here.                                            *)
(***************************************************************************)
\* main.rs:51 and main.rs:122
DefaultModel == "google_ai:gemini-2.0-flash-exp"
\* main.rs:76  (unwrap_or of a missing completion inside get_response)
MissingContentMessage == "Moushiwake arimasen. Outou wo seisei dekimasen deshita."
\* main.rs:130 (the Err arm of the spawned task)
FallbackMessage == "Moushiwake arimasen. Outou no seisei ni shippai shimashita."

(***************************************************************************)
(* Option and Result values.                                               *)
(***************************************************************************)
None == [some |-> FALSE]
Some(v) == [some |-> TRUE, val |-> v]
UnwrapOr(opt, default) == IF opt.some THEN opt.val ELSE default

Ok(v) == [ok |-> TRUE, val |-> v]
Err(e) == [ok |-> FALSE, err |-> e]

(***************************************************************************)
(* serde_json::Value, as far as get_response looks at it.                  *)
(***************************************************************************)
JNull == [t |-> "null"]
JStr(s) == [t |-> "str", s |-> s]
JNum(n) == [t |-> "num", n |-> n]
JArr(a) == [t |-> "arr", a |-> a]
JObj(f) == [t |-> "obj", f |-> f]
JField(k, v) == JObj([x \in {k} |-> v])

\* Value[&str]: Null unless the value is an object that has the key.
IndexKey(v, k) ==
    IF v.t = "obj" THEN (IF k \in DOMAIN v.f THEN v.f[k] ELSE JNull) ELSE JNull

\* Faulty variant of IndexNum: the index taken as 1-based.
IndexNumOneBased(v, i) ==
    IF v.t = "arr" THEN (IF i \in DOMAIN v.a THEN v.a[i] ELSE JNull) ELSE JNull

\* Value[usize] (0-based): Null unless the value is an array that long.
IndexNum(v, i) ==
    IF v.t = "arr" THEN (IF i + 1 \in DOMAIN v.a THEN v.a[i + 1] ELSE JNull) ELSE JNull

\* Faulty variant of AsStr: an empty string taken as no string.
AsStrNonEmpty(v) == IF v.t = "str" THEN (IF v.s = "" THEN None ELSE Some(v.s)) ELSE None

\* Value::as_str: Some only for a JSON string.
AsStr(v) == IF v.t = "str" THEN Some(v.s) ELSE None

(***************************************************************************)
(* What the LLM endpoint can answer to one POST.                           *)
(***************************************************************************)
\* A body that is not JSON text.
RawBody == [json |-> FALSE]
\* A body that is the JSON text of value v.
JsonBody(v) == [json |-> TRUE, value |-> v]

Completion(c) == JField("choices", JArr(<<JField("message", JField("content", c))>>))

TransportError == [kind |-> "transport"]
Http(status, body) == [kind |-> "http", status |-> status, body |-> body]

\* The completion texts the endpoint produces.
CompletionTexts == {"Hello", ""}

\* The answer 200 with the completion string s.
CompletionAnswer == [s \in CompletionTexts |-> Http(200, JsonBody(Completion(JStr(s))))]

Responses ==
    { TransportError,
      Http(200, JsonBody(Completion(JNum(42)))),
      Http(200, RawBody),
      Http(500, JsonBody(JField("error", JStr("internal")))) }
    \cup { CompletionAnswer[s] : s \in CompletionTexts }

(***************************************************************************)
(* Events handed to handle_event by the webhook layer.                     *)
(***************************************************************************)
AppMention(channel, ts, text) ==
    [kind |-> "AppMention", channel |-> channel, ts |-> ts, text |-> text]
Message(channel, text) == [kind |-> "Message", channel |-> channel, text |-> text]
OtherEvent == [kind |-> "Other"]

EventPool ==
    { AppMention("C1", "1.0", "q1"),
      AppMention("", "2.0", "q2"),
      AppMention("C3", "", "q3"),
      Message("C1", "q1"),
      OtherEvent }

NoEvent == [kind |-> "none"]
NoResponse == [kind |-> "none"]
NoResult == [set |-> FALSE]
NoArgs == [called |-> FALSE]
\* get_response(user_message, options)
Args(user_message, options) ==
    [called |-> TRUE, user_message |-> user_message, options |-> options]

\* The environment variables main reads with expect().
RequiredEnv ==
    {"SLACK_SIGNING_SECRET", "SLACK_BOT_TOKEN", "NGROK_DOMAIN",
     "API_URL", "OPERATOR_ID", "API_TOKEN"}

VARIABLES
    env,       \* the environment variables that are set when the process starts
    phase,     \* where main is: "starting", "serving" or "aborted"
    ev,        \* ev[e]: the event delivered as the e-th, NoEvent before
    ack,       \* ack[e]: what handle_event returned for it
    task,      \* task[e]: position of the task spawned for it
    args,      \* args[e]: the arguments get_response was called with
    posts,     \* posts[e]: the POSTs its task sent to the LLM endpoint
    response,  \* response[e]: what the endpoint answered
    woken,     \* the tasks whose answer has come and that were not polled since, in
               \* the order of the answers
    result,    \* result[e]: what get_response returned
    replies,   \* replies[e]: the reply_to_thread calls its task made
    log        \* log[e]: the lines logged for it

vars == <<env, phase, ev, ack, task, args, posts, response, woken, result, replies, log>>

\* The state of the handler and of its tasks before any event.
NoEvents ==
    /\ ev = [e \in EventIds |-> NoEvent]
    /\ ack = [e \in EventIds |-> "none"]
    /\ task = [e \in EventIds |-> "none"]
    /\ args = [e \in EventIds |-> NoArgs]
    /\ posts = [e \in EventIds |-> <<>>]
    /\ response = [e \in EventIds |-> NoResponse]
    /\ woken = <<>>
    /\ result = [e \in EventIds |-> NoResult]
    /\ replies = [e \in EventIds |-> <<>>]
    /\ log = [e \in EventIds |-> {}]

\* The process starts with any of the variables set or not.
Init ==
    /\ env \in SUBSET RequiredEnv
    /\ phase = "starting"
    /\ NoEvents

(***************************************************************************)
(* LLMClient::get_response.                                                *)
(***************************************************************************)
\* The client built in main from the environment.
LlmClient == [api_url |-> "API_URL", operator_id |-> "OPERATOR_ID", api_token |-> "API_TOKEN"]

LLMOptions(model) == [model |-> model]
\* impl Default for LLMOptions
LLMOptionsDefault == LLMOptions("google_ai:gemini-2.0-flash-exp")

\* Faulty variant of ModelOf: the override is not looked at.
ModelOfIgnoringOverride(options) == DefaultModel

\* options.map(|opt| opt.model).unwrap_or(default)
ModelOf(options) ==
    UnwrapOr(IF options.some THEN Some(options.val.model) ELSE None, DefaultModel)

\* json!({ "model": model, "messages": [ { "role": "user", "content": user_message } ] })
RequestBody(user_message, options) ==
    [model |-> ModelOf(options),
     messages |-> <<[role |-> "user", content |-> user_message]>>]

\* client.post(&self.api_url).header(...).json(&request_body)
PostRequest(client, user_message, options) ==
    [url |-> client.api_url,
     operator_id |-> client.operator_id,
     authorization |-> <<"Bearer", client.api_token>>,
     body |-> RequestBody(user_message, options)]

\* response.json(): the body parsed, without a look at the status.
ParseJson(resp) ==
    IF resp.body.json THEN Ok(resp.body.value) ELSE Err("error decoding response body")

\* response_json["choices"][0]["message"]["content"].as_str().unwrap_or(..)
ContentOf(response_json) ==
    UnwrapOr(
        AsStr(IndexKey(IndexKey(IndexNum(IndexKey(response_json, "choices"), 0),
                                "message"), "content")),
        MissingContentMessage)

\* get_response up to its first await: the request is built and the POST sent.
GetResponseSend(e, user_message, options) ==
    /\ args' = [args EXCEPT ![e] = Args(user_message, options)]
    /\ posts' = [posts EXCEPT ![e] =
                    Append(@, PostRequest(LlmClient, user_message, options))]

\* Faulty variant of GetResponseResult: a client that keeps state between calls
\* and serves only its first call.
GetResponseResultOnce(resp) ==
    IF \E d \in EventIds : result[d].set
    THEN Err("client already used")
    ELSE IF resp.kind = "transport"
         THEN Err("error sending request")
         ELSE LET response_json == ParseJson(resp)
              IN  IF response_json.ok THEN Ok(ContentOf(response_json.val))
                  ELSE Err(response_json.err)

\* What get_response returns once the endpoint has answered resp.
GetResponseResult(resp) ==
    IF resp.kind = "transport"
    THEN Err("error sending request")
    ELSE LET response_json == ParseJson(resp)
         IN  IF response_json.ok THEN Ok(ContentOf(response_json.val))
             ELSE Err(response_json.err)

(***************************************************************************)
(* MentionHandler::handle_event and the task it spawns.                    *)
(***************************************************************************)
\* let message = match result { Ok(response) => response, Err(e) => fallback }
MessageOf(res) == IF res.ok THEN res.val ELSE FallbackMessage

\* Faulty variant of Startup: the LLM settings read with unwrap_or_default(), so
\* the process serves without them.
StartupLenient(tunnel) ==
    /\ phase = "starting"
    /\ phase' = IF {"SLACK_SIGNING_SECRET", "SLACK_BOT_TOKEN", "NGROK_DOMAIN"} \subseteq env
                    /\ tunnel
                 THEN "serving" ELSE "aborted"
    /\ UNCHANGED <<env, ev, ack, task, args, posts, response, woken, result, replies, log>>

\* main: every std::env::var(..).expect(..) panics when its variable is not set;
\* then the client and the router are built, the tunnel is connected (`?` ends
\* main when that fails) and the server serves.
Startup(tunnel) ==
    /\ phase = "starting"
    /\ phase' = IF RequiredEnv \subseteq env /\ tunnel THEN "serving" ELSE "aborted"
    /\ UNCHANGED <<env, ev, ack, task, args, posts, response, woken, result, replies, log>>

\* The server hands events to handle_event once it serves, the next event once
\* the ones before it have been delivered.
Deliverable(e) ==
    /\ phase = "serving"
    /\ ev[e] = NoEvent
    /\ \A d \in EventIds : d < e => ev[d] # NoEvent

\* Faulty variant of HandleMention: the handler awaits the work it started, so
\* it has not returned while the task runs.
HandleMentionAwaiting(e, event) ==
    /\ Deliverable(e)
    /\ event.kind = "AppMention"
    /\ ev' = [ev EXCEPT ![e] = event]
    /\ log' = [log EXCEPT ![e] = @ \cup {"mention received"}]
    /\ task' = [task EXCEPT ![e] = "spawned"]
    /\ UNCHANGED <<env, phase, ack, args, posts, response, woken, result, replies>>

\* The AppMention arm: log, clone, tokio::spawn, Ok(()).
HandleMention(e, event) ==
    /\ Deliverable(e)
    /\ event.kind = "AppMention"
    /\ ev' = [ev EXCEPT ![e] = event]
    /\ log' = [log EXCEPT ![e] = @ \cup {"mention received"}]
    /\ task' = [task EXCEPT ![e] = "spawned"]
    /\ ack' = [ack EXCEPT ![e] = "Ok"]
    /\ UNCHANGED <<env, phase, args, posts, response, woken, result, replies>>

\* Faulty variant of HandleMessage: a plain message is answered like a mention.
HandleMessageSpawning(e, event) ==
    /\ Deliverable(e)
    /\ event.kind = "Message"
    /\ ev' = [ev EXCEPT ![e] = event]
    /\ log' = [log EXCEPT ![e] = @ \cup {"message received"}]
    /\ task' = [task EXCEPT ![e] = "spawned"]
    /\ ack' = [ack EXCEPT ![e] = "Ok"]
    /\ UNCHANGED <<env, phase, args, posts, response, woken, result, replies>>

\* The Message arm: log, Ok(()).
HandleMessage(e, event) ==
    /\ Deliverable(e)
    /\ event.kind = "Message"
    /\ ev' = [ev EXCEPT ![e] = event]
    /\ log' = [log EXCEPT ![e] = @ \cup {"message received"}]
    /\ ack' = [ack EXCEPT ![e] = "Ok"]
    /\ UNCHANGED <<env, phase, task, args, posts, response, woken, result, replies>>

\* The catch-all arm: log, Ok(()).
HandleOther(e, event) ==
    /\ Deliverable(e)
    /\ event.kind \notin {"AppMention", "Message"}
    /\ ev' = [ev EXCEPT ![e] = event]
    /\ log' = [log EXCEPT ![e] = @ \cup {"unsupported event"}]
    /\ ack' = [ack EXCEPT ![e] = "Ok"]
    /\ UNCHANGED <<env, phase, task, args, posts, response, woken, result, replies>>

\* Faulty variant of TaskCallLLM: the reply is started together with the LLM
\* call instead of after it.
TaskCallLLMAndReply(e) ==
    /\ task[e] = "spawned"
    /\ LET options == Some(LLMOptions(DefaultModel))
       IN  /\ args' = [args EXCEPT ![e] = Args(ev[e].text, options)]
           /\ posts' = [posts EXCEPT ![e] =
                           Append(@, PostRequest(LlmClient, ev[e].text, options))]
    /\ replies' = [replies EXCEPT ![e] =
                      Append(@, [channel |-> ev[e].channel, ts |-> ev[e].ts,
                                 text |-> FallbackMessage])]
    /\ task' = [task EXCEPT ![e] = "generating"]
    /\ UNCHANGED <<env, phase, ev, ack, response, woken, result, log>>

\* The task starts: get_response builds the request and sends the POST.
TaskCallLLM(e) ==
    /\ task[e] = "spawned"
    /\ GetResponseSend(e, ev[e].text, Some(LLMOptions(DefaultModel)))
    /\ task' = [task EXCEPT ![e] = "generating"]
    /\ UNCHANGED <<env, phase, ev, ack, response, woken, result, replies, log>>

\* The endpoint (or the network) answers the POST of e.
LLMRespond(e, resp) ==
    /\ task[e] = "generating"
    /\ response[e] = NoResponse
    /\ response' = [response EXCEPT ![e] = resp]
    /\ woken' = Append(woken, e)
    /\ UNCHANGED <<env, phase, ev, ack, task, args, posts, result, replies, log>>

\* Faulty variant of TaskReply: an Err of get_response ends the task (as `?`
\* would) before any reply.
TaskReplyOkOnly(e) ==
    /\ task[e] = "generating"
    /\ response[e] # NoResponse
    /\ LET res == GetResponseResult(response[e])
       IN  /\ result' = [result EXCEPT ![e] = [set |-> TRUE, res |-> res]]
           /\ log' = [log EXCEPT ![e] = IF res.ok THEN @ ELSE @ \cup {"llm failed"}]
           /\ replies' = IF res.ok
                         THEN [replies EXCEPT ![e] =
                                 Append(@, [channel |-> ev[e].channel, ts |-> ev[e].ts,
                                            text |-> MessageOf(res)])]
                         ELSE replies
           /\ task' = [task EXCEPT ![e] = IF res.ok THEN "replying" ELSE "done"]
    /\ woken' = SelectSeq(woken, LAMBDA w : w # e)
    /\ UNCHANGED <<env, phase, ev, ack, args, posts, response>>

\* Faulty variant of TaskReply: the events are worked off one after the other, a
\* reply waiting for the replies of the events delivered before it.
TaskReplyInArrivalOrder(e) ==
    /\ task[e] = "generating"
    /\ response[e] # NoResponse
    /\ \A d \in EventIds : d < e => task[d] \in {"none", "replying", "done"}
    /\ LET res == GetResponseResult(response[e])
       IN  /\ result' = [result EXCEPT ![e] = [set |-> TRUE, res |-> res]]
           /\ log' = [log EXCEPT ![e] = IF res.ok THEN @ ELSE @ \cup {"llm failed"}]
           /\ replies' = [replies EXCEPT ![e] =
                            Append(@, [channel |-> ev[e].channel, ts |-> ev[e].ts,
                                       text |-> MessageOf(res)])]
    /\ woken' = SelectSeq(woken, LAMBDA w : w # e)
    /\ task' = [task EXCEPT ![e] = "replying"]
    /\ UNCHANGED <<env, phase, ev, ack, args, posts, response>>

\* Faulty variant of TaskReply: after an Err of get_response the POST is sent
\* once more.
TaskReplyRetryingLLM(e) ==
    /\ task[e] = "generating"
    /\ response[e] # NoResponse
    /\ woken' = SelectSeq(woken, LAMBDA w : w # e)
    /\ LET res == GetResponseResult(response[e])
       IN  IF ~res.ok /\ Len(posts[e]) < 2
           THEN /\ posts' = [posts EXCEPT ![e] = Append(@, @[Len(@)])]
                /\ response' = [response EXCEPT ![e] = NoResponse]
                /\ UNCHANGED <<result, log, replies, task>>
           ELSE /\ result' = [result EXCEPT ![e] = [set |-> TRUE, res |-> res]]
                /\ log' = [log EXCEPT ![e] = IF res.ok THEN @ ELSE @ \cup {"llm failed"}]
                /\ replies' = [replies EXCEPT ![e] =
                                 Append(@, [channel |-> ev[e].channel, ts |-> ev[e].ts,
                                            text |-> MessageOf(res)])]
                /\ task' = [task EXCEPT ![e] = "replying"]
                /\ UNCHANGED <<posts, response>>
    /\ UNCHANGED <<env, phase, ev, ack, args>>

\* Faulty variant of TaskReply: channel and ts are read from a field the handler
\* shares between its tasks, which holds the latest mention delivered.
TaskReplySharedAddress(e) ==
    /\ task[e] = "generating"
    /\ response[e] # NoResponse
    /\ LET res == GetResponseResult(response[e])
           latest == CHOOSE d \in EventIds :
                         /\ ev[d].kind = "AppMention"
                         /\ \A c \in EventIds : ev[c].kind = "AppMention" => c <= d
       IN  /\ result' = [result EXCEPT ![e] = [set |-> TRUE, res |-> res]]
           /\ log' = [log EXCEPT ![e] = IF res.ok THEN @ ELSE @ \cup {"llm failed"}]
           /\ replies' = [replies EXCEPT ![e] =
                            Append(@, [channel |-> ev[latest].channel,
                                       ts |-> ev[latest].ts,
                                       text |-> MessageOf(res)])]
    /\ woken' = SelectSeq(woken, LAMBDA w : w # e)
    /\ task' = [task EXCEPT ![e] = "replying"]
    /\ UNCHANGED <<env, phase, ev, ack, args, posts, response>>

\* Faulty variant of TaskReply: the task goes on only after an Ok of
\* get_response, and waits forever after an Err.
TaskReplyOnlyAfterOk(e) ==
    /\ task[e] = "generating"
    /\ response[e] # NoResponse
    /\ LET res == GetResponseResult(response[e])
       IN  /\ res.ok
           /\ result' = [result EXCEPT ![e] = [set |-> TRUE, res |-> res]]
           /\ log' = log
           /\ replies' = [replies EXCEPT ![e] =
                            Append(@, [channel |-> ev[e].channel, ts |-> ev[e].ts,
                                       text |-> MessageOf(res)])]
    /\ woken' = SelectSeq(woken, LAMBDA w : w # e)
    /\ task' = [task EXCEPT ![e] = "replying"]
    /\ UNCHANGED <<env, phase, ev, ack, args, posts, response>>

\* Faulty variant of TaskReply: the LLM call is given up when no answer has come
\* (a timeout), and the fallback is sent.
TaskReplyWithTimeout(e) ==
    /\ task[e] = "generating"
    /\ LET res == IF response[e] = NoResponse THEN Err("timed out")
                  ELSE GetResponseResult(response[e])
       IN  /\ result' = [result EXCEPT ![e] = [set |-> TRUE, res |-> res]]
           /\ log' = [log EXCEPT ![e] = IF res.ok THEN @ ELSE @ \cup {"llm failed"}]
           /\ replies' = [replies EXCEPT ![e] =
                            Append(@, [channel |-> ev[e].channel, ts |-> ev[e].ts,
                                       text |-> MessageOf(res)])]
    /\ woken' = SelectSeq(woken, LAMBDA w : w # e)
    /\ task' = [task EXCEPT ![e] = "replying"]
    /\ UNCHANGED <<env, phase, ev, ack, args, posts, response>>

\* The task is polled again: get_response returns, the message is chosen and
\* reply_to_thread is called.
TaskReply(e) ==
    /\ task[e] = "generating"
    /\ response[e] # NoResponse
    /\ LET res == GetResponseResult(response[e])
       IN  /\ result' = [result EXCEPT ![e] = [set |-> TRUE, res |-> res]]
           /\ log' = [log EXCEPT ![e] = IF res.ok THEN @ ELSE @ \cup {"llm failed"}]
           /\ replies' = [replies EXCEPT ![e] =
                            Append(@, [channel |-> ev[e].channel, ts |-> ev[e].ts,
                                       text |-> MessageOf(res)])]
    /\ woken' = SelectSeq(woken, LAMBDA w : w # e)
    /\ task' = [task EXCEPT ![e] = "replying"]
    /\ UNCHANGED <<env, phase, ev, ack, args, posts, response>>

\* Faulty variant of ReplyReturns: a failed reply is sent once more.
ReplyReturnsRetrying(e, delivered) ==
    /\ task[e] = "replying"
    /\ log' = [log EXCEPT ![e] = IF delivered THEN @ ELSE @ \cup {"reply failed"}]
    /\ IF ~delivered /\ Len(replies[e]) < 2
       THEN /\ replies' = [replies EXCEPT ![e] = Append(@, @[Len(@)])]
            /\ task' = task
       ELSE /\ replies' = replies
            /\ task' = [task EXCEPT ![e] = "done"]
    /\ UNCHANGED <<env, phase, ev, ack, args, posts, response, woken, result>>

\* reply_to_thread returns; an Err is logged and the task ends.
ReplyReturns(e, delivered) ==
    /\ task[e] = "replying"
    /\ log' = [log EXCEPT ![e] = IF delivered THEN @ ELSE @ \cup {"reply failed"}]
    /\ task' = [task EXCEPT ![e] = "done"]
    /\ UNCHANGED <<env, phase, ev, ack, args, posts, response, woken, result, replies>>

Next ==
    \/ \E tunnel \in BOOLEAN : Startup(tunnel)
    \/ \E e \in EventIds, event \in EventPool : HandleMention(e, event)
    \/ \E e \in EventIds, event \in EventPool : HandleMessage(e, event)
    \/ \E e \in EventIds, event \in EventPool : HandleOther(e, event)
    \/ \E e \in EventIds : TaskCallLLM(e)
    \/ \E e \in EventIds, resp \in Responses : LLMRespond(e, resp)
    \/ \E e \in EventIds : TaskReply(e)
    \/ \E e \in EventIds, delivered \in BOOLEAN : ReplyReturns(e, delivered)

Spec == Init /\ [][Next]_vars

(***************************************************************************)
(* Vocabulary of the properties.                                           *)
(***************************************************************************)
RepliesOf(e) == DOMAIN replies[e]
ReplyCount(e) == Len(replies[e])
IsMention(e) == ev[e].kind = "AppMention"
Addressed(e) == IsMention(e) /\ ev[e].channel # "" /\ ev[e].ts # ""
Unaddressed(e) == IsMention(e) /\ (ev[e].channel = "" \/ ev[e].ts = "")
\* The LLM call of e has ended, in an Ok or in an Err.
LlmEnded(e) == result[e].set
LlmPending(e) == task[e] = "generating" /\ response[e] = NoResponse
\* The answer r is a failure of the LLM leg: no connection, HTTP 500, or a body
\* that is not JSON.
FailedAnswer(r) ==
    \/ r.kind = "transport"
    \/ r.kind = "http" /\ (r.status = 500 \/ ~r.body.json)
\* The answer r is JSON text.
JsonAnswer(r) == r.kind = "http" /\ r.body.json
\* The answer r carries the completion string s at choices[0].message.content.
Completes(r, s) == JsonAnswer(r) /\ r.body.value = Completion(JStr(s))

(***************************************************************************)
(* C1: a mention with a channel and a ts gets exactly one reply_to_thread  *)
(* call, whether its LLM call ended in Ok or in Err: none before the LLM   *)
(* call has ended, one from then on, never two.                            *)
(***************************************************************************)
C1_ExactlyOneReply ==
    \A e \in EventIds :
        Addressed(e) =>
            /\ ReplyCount(e) <= 1
            /\ LlmEnded(e) => ReplyCount(e) = 1
            /\ task[e] = "done" => ReplyCount(e) = 1

\* Two addressed mentions are done, one after an Ok and one after an Err of the LLM.
C1_Witness ==
    \E a, b \in EventIds :
        /\ Addressed(a) /\ task[a] = "done" /\ result[a].res.ok /\ ReplyCount(a) = 1
        /\ Addressed(b) /\ task[b] = "done" /\ ~result[b].res.ok /\ ReplyCount(b) = 1

(***************************************************************************)
(* C2: a mention whose channel or ts is empty is dropped: no POST to the   *)
(* LLM endpoint and no reply_to_thread call is made for it.                *)
(***************************************************************************)
C2_UnaddressedDropped ==
    \A e \in EventIds :
        Unaddressed(e) => Len(posts[e]) = 0 /\ ReplyCount(e) = 0 /\ task[e] = "none"

(***************************************************************************)
(* C3: when the endpoint answers HTTP 500, or the connection fails, or the *)
(* body is not JSON, the reply sent for an addressed mention is the        *)
(* fallback message of the task.                                           *)
(***************************************************************************)
C3_FailureRepliesFallback ==
    \A e \in EventIds :
        Addressed(e) /\ LlmEnded(e) /\ FailedAnswer(response[e]) =>
            /\ ReplyCount(e) = 1
            /\ \A i \in RepliesOf(e) : replies[e][i].text = FallbackMessage

(***************************************************************************)
(* C4: the text of every reply to an addressed mention is either the       *)
(* completion string the endpoint returned for that event or the one       *)
(* fallback message.                                                       *)
(***************************************************************************)
C4_CompletionOrOneFallback ==
    \A e \in EventIds : \A i \in RepliesOf(e) :
        Addressed(e) =>
            \/ Completes(response[e], replies[e][i].text)
            \/ replies[e][i].text = FallbackMessage

(***************************************************************************)
(* C5: when the endpoint answers 200 with the completion string s, the     *)
(* reply sent has exactly the text s.                                      *)
(***************************************************************************)
C5_CompletionVerbatim ==
    \A e \in EventIds : \A s \in CompletionTexts :
        LlmEnded(e) /\ response[e] = CompletionAnswer[s] =>
            /\ ReplyCount(e) = 1
            /\ \A i \in RepliesOf(e) : replies[e][i].text = s

\* "Hello" came back and was sent on.
C5_Witness ==
    \E e \in EventIds : \E i \in RepliesOf(e) :
        /\ response[e] = CompletionAnswer["Hello"]
        /\ replies[e][i].text = "Hello"

(***************************************************************************)
(* C6: an empty completion string is a success: get_response returns       *)
(* Ok("") and the reply text is "", not a fallback message.                *)
(***************************************************************************)
C6_EmptyCompletionRelayed ==
    \A e \in EventIds :
        LlmEnded(e) /\ response[e] = CompletionAnswer[""] =>
            /\ result[e].res = Ok("")
            /\ \A i \in RepliesOf(e) : replies[e][i].text = ""
            /\ "llm failed" \notin log[e]

\* An empty completion came back and an empty reply went out.
C6_Witness ==
    \E e \in EventIds : \E i \in RepliesOf(e) :
        /\ response[e] = CompletionAnswer[""]
        /\ result[e].res = Ok("")
        /\ replies[e][i].text = ""

(***************************************************************************)
(* C7: when the answer to an addressed mention is 200 with JSON that has   *)
(* no string at choices[0].message.content, get_response returns an Err.   *)
(***************************************************************************)
C7_MissingCompletionIsErr ==
    \A e \in EventIds :
        (/\ Addressed(e)
         /\ LlmEnded(e)
         /\ JsonAnswer(response[e])
         /\ response[e].status = 200
         /\ \A s \in CompletionTexts : ~Completes(response[e], s))
            => ~result[e].res.ok

(***************************************************************************)
(* C8: handle_event has returned Ok for every mention it was given, also   *)
(* while the LLM call or the reply call of that mention is still running,  *)
(* and the next event can be handed to handle_event whatever the tasks of  *)
(* the earlier events are doing.                                           *)
(***************************************************************************)
C8_AckWithoutWaiting ==
    \A e \in EventIds :
        /\ task[e] \in {"spawned", "generating", "replying"} => ack[e] = "Ok"
        /\ Deliverable(e) => ENABLED (\E event \in EventPool : HandleMention(e, event))

\* B was acknowledged while the LLM call of the earlier A is still unanswered.
C8_Witness ==
    \E a, b \in EventIds :
        a < b /\ LlmPending(a) /\ ack[a] = "Ok" /\ IsMention(b) /\ ack[b] = "Ok"

(***************************************************************************)
(* C9 as claimed: of two addressed mentions, the one whose LLM answer came  *)
(* first makes its reply call first.  As a step property: the earlier      *)
(* delivered A makes its reply call only when no later delivered B,        *)
(* answered before A, still has its reply call to make.                    *)
(***************************************************************************)
AnsweredBefore(b, a) ==
    \E i, j \in DOMAIN woken : i < j /\ woken[i] = b /\ woken[j] = a

C9_ReplyOrderIsAnswerOrder ==
    [][\A a, b \in EventIds :
          (/\ a < b /\ Addressed(a) /\ Addressed(b)
           /\ task[a] = "generating" /\ task'[a] = "replying")
              => ~AnsweredBefore(b, a)]_vars

(***************************************************************************)
(* C9 as amended: while the LLM call of A is still unanswered, a later     *)
(* mention B whose LLM answer has come can make its reply call: B's task   *)
(* does not wait for A's.                                                  *)
(***************************************************************************)
C9_ReplyNeverDelayed ==
    \A a, b \in EventIds :
        (a < b /\ LlmPending(a) /\ response[b] # NoResponse /\ ReplyCount(b) = 0)
            => ENABLED TaskReply(b)

\* B, delivered after A, has made its reply call while A's LLM call is unanswered.
C9_Witness ==
    \E a, b \in EventIds : a < b /\ LlmPending(a) /\ ReplyCount(b) = 1

ReplyFailed(e) == "reply failed" \in log[e]

C11_ReplyFailureOnlyLogged ==
    /\ [](\A e \in EventIds :
            ReplyFailed(e) =>
                /\ task[e] = "done"
                /\ ReplyCount(e) = 1
                /\ Len(posts[e]) = 1
                /\ ack[e] = "Ok")
    /\ [][\A e \in EventIds :
            (~ReplyFailed(e) /\ ReplyFailed(e)') =>
                /\ replies' = replies /\ posts' = posts /\ ack' = ack
                /\ \A d \in EventIds \ {e} : task'[d] = task[d] /\ log'[d] = log[d]]_vars

\* A reply failed while the task of another event is still at work, and that
\* task is untouched.
C11_Witness ==
    \E e, d \in EventIds :
        /\ ReplyFailed(e) /\ task[e] = "done" /\ ReplyCount(e) = 1
        /\ d # e /\ task[d] \in {"generating", "replying"}

(***************************************************************************)
(* C12: a handled mention causes exactly one POST to the LLM endpoint:     *)
(* none before its task has called get_response, one from then on, also    *)
(* after a transport error, a bad status or an unparsable body.            *)
(***************************************************************************)
C12_OnePostPerMention ==
    \A e \in EventIds :
        /\ Len(posts[e]) <= 1
        /\ args[e].called <=> Len(posts[e]) = 1
        /\ task[e] \in {"generating", "replying", "done"} <=> Len(posts[e]) = 1

\* A task is done after an Err of get_response, with its one POST.
C12_Witness ==
    \E e \in EventIds :
        /\ task[e] = "done" /\ ~result[e].res.ok
        /\ "llm failed" \in log[e]
        /\ Len(posts[e]) = 1

(***************************************************************************)
(* C13: in one task the LLM call and the reply call follow one another:    *)
(* a reply call is made only when the LLM call of that event has ended,    *)
(* the two are never in flight together, and the task moves only along     *)
(* spawned -> generating -> replying -> done.                              *)
(***************************************************************************)
LlmInFlight(e) == Len(posts[e]) > 0 /\ ~LlmEnded(e)
ReplyInFlight(e) == ReplyCount(e) > 0 /\ task[e] # "done"
TaskPaths ==
    { <<"none", "spawned">>, <<"spawned", "generating">>,
      <<"generating", "replying">>, <<"replying", "done">> }

C13_LlmThenReply ==
    /\ [](\A e \in EventIds :
            /\ ReplyCount(e) > 0 => LlmEnded(e) /\ response[e] # NoResponse
            /\ ~(LlmInFlight(e) /\ ReplyInFlight(e)))
    /\ [][\A e \in EventIds :
            task'[e] # task[e] => <<task[e], task'[e]>> \in TaskPaths]_vars

\* The reply call of a task is in flight after its LLM call ended in an Err.
C13_Witness ==
    \E e \in EventIds :
        /\ ReplyInFlight(e) /\ task[e] = "replying"
        /\ LlmEnded(e) /\ ~result[e].res.ok
        /\ replies[e][1].text = FallbackMessage

(***************************************************************************)
(* C14: for an event that is not a mention handle_event spawns no task,    *)
(* so that no POST and no reply call is ever made for it, and returns Ok.  *)
(***************************************************************************)
Delivered(e) == ev[e] # NoEvent

C14_OtherEventsIgnored ==
    \A e \in EventIds :
        Delivered(e) /\ ~IsMention(e) =>
            /\ task[e] = "none"
            /\ ~args[e].called
            /\ Len(posts[e]) = 0
            /\ ReplyCount(e) = 0
            /\ ack[e] = "Ok"
            /\ log[e] \in {{"message received"}, {"unsupported event"}}

\* A plain message and an event of another kind were both handled, and the run
\* has gone on until nothing more can happen.
C14_Witness ==
    /\ \E e \in EventIds : ev[e].kind = "Message" /\ ack[e] = "Ok"
    /\ \E e \in EventIds : ev[e].kind = "Other" /\ ack[e] = "Ok"
    /\ \A e \in EventIds : Delivered(e) /\ task[e] \in {"none", "done"}

(***************************************************************************)
(* C15: whatever the interleaving of the tasks, a reply goes to the        *)
(* channel and ts of the event whose task made it, the POST of an event    *)
(* carries that event's text as its one user message, and the reply text   *)
(* is the message chosen from the result of that same event's LLM call.    *)
(***************************************************************************)
C15_NoCrossTalk ==
    \A e \in EventIds :
        /\ \A i \in RepliesOf(e) :
              /\ replies[e][i].channel = ev[e].channel
              /\ replies[e][i].ts = ev[e].ts
              /\ LlmEnded(e)
              /\ result[e].res = GetResponseResult(response[e])
              /\ replies[e][i].text = MessageOf(result[e].res)
        /\ \A j \in DOMAIN posts[e] :
              /\ posts[e][j].body.messages[1].content = ev[e].text
              /\ args[e].user_message = ev[e].text

\* Two mentions with different addresses and different texts were answered
\* differently, and each got its own reply.
C15_Witness ==
    \E a, b \in EventIds :
        /\ ReplyCount(a) = 1 /\ ReplyCount(b) = 1
        /\ ev[a].channel # ev[b].channel /\ ev[a].ts # ev[b].ts
        /\ ev[a].text # ev[b].text
        /\ response[a] # response[b]
        /\ replies[a][1].text # replies[b][1].text
        /\ replies[a][1].channel = ev[a].channel /\ replies[b][1].channel = ev[b].channel

(***************************************************************************)
(* The specification for progress.  The runtime polls every task that can  *)
(* run, and every call to the LLM endpoint and to the chat client returns  *)
(* at some time.  The events and the answers are one of each kind the code *)
(* tells apart: a mention, a plain message and another event; a            *)
(* completion, JSON without a completion, a body that is not JSON and a    *)
(* failed connection.                                                      *)
(***************************************************************************)
LiveEventPool == {AppMention("C1", "1.0", "q1"), Message("C1", "q1"), OtherEvent}
LiveResponses ==
    { CompletionAnswer["Hello"],
      Http(500, JsonBody(JField("error", JStr("internal")))),
      Http(200, RawBody),
      TransportError }

LiveNext ==
    \/ \E tunnel \in BOOLEAN : Startup(tunnel)
    \/ \E e \in EventIds, event \in LiveEventPool : HandleMention(e, event)
    \/ \E e \in EventIds, event \in LiveEventPool : HandleMessage(e, event)
    \/ \E e \in EventIds, event \in LiveEventPool : HandleOther(e, event)
    \/ \E e \in EventIds : TaskCallLLM(e)
    \/ \E e \in EventIds, resp \in LiveResponses : LLMRespond(e, resp)
    \/ \E e \in EventIds : TaskReply(e)
    \/ \E e \in EventIds, delivered \in BOOLEAN : ReplyReturns(e, delivered)

\* The steps of the task of e and of the calls it waits for; at most one of
\* them is possible at a time.
TaskStep(e) ==
    \/ TaskCallLLM(e)
    \/ \E resp \in LiveResponses : LLMRespond(e, resp)
    \/ TaskReply(e)
    \/ \E delivered \in BOOLEAN : ReplyReturns(e, delivered)

FairSpec == Init /\ [][LiveNext]_vars /\ \A e \in EventIds : WF_vars(TaskStep(e))

(***************************************************************************)
(* C16: under FairSpec the task of every accepted mention gets to done,    *)
(* having made its reply call, whatever the LLM call and the reply call    *)
(* returned.                                                               *)
(***************************************************************************)
C16_EveryTaskEnds ==
    \A e \in EventIds :
        (task[e] = "spawned") ~> (task[e] = "done" /\ ReplyCount(e) = 1)

\* Every event was a mention and every task is done with its reply made, one of
\* them after an Err of the LLM call and a failed reply call.
C16_Witness ==
    /\ \A e \in EventIds : IsMention(e) /\ task[e] = "done" /\ ReplyCount(e) = 1
    /\ \E e \in EventIds : ~result[e].res.ok /\ ReplyFailed(e)

(***************************************************************************)
(* C17: while the LLM call of an event is unanswered its task stays in     *)
(* generating: no step but the answer moves it, no reply call is made for  *)
(* it and get_response does not return; a task of another event that       *)
(* waits for its reply call to return can still end.                       *)
(***************************************************************************)
C17_HungCallHoldsTask ==
    /\ [](\A a \in EventIds :
            LlmPending(a) =>
                /\ ReplyCount(a) = 0 /\ ~LlmEnded(a)
                /\ \A b \in EventIds \ {a} :
                      task[b] = "replying" => ENABLED ReplyReturns(b, TRUE))
    /\ [][\A a \in EventIds :
            (LlmPending(a) /\ response'[a] = NoResponse) =>
                /\ task'[a] = "generating"
                /\ replies'[a] = <<>>
                /\ ~result'[a].set]_vars

\* The LLM call of the first mention is still unanswered when the task of the
\* second, delivered later, is done.
C17_Witness ==
    \E a, b \in EventIds :
        a < b /\ LlmPending(a) /\ ReplyCount(a) = 0 /\ task[b] = "done"

(***************************************************************************)
(* get_response called on its own, with any user message and any options.  *)
(***************************************************************************)
UserMessages == {"", "q1", "<@U1> hello", "a\nb"}
OptionsPool ==
    {None} \cup {Some(LLMOptions(m)) : m \in {"google_ai:gemini-2.0-flash-exp", "openai:gpt-4o"}}

DirectInit ==
    /\ env = RequiredEnv
    /\ phase = "serving"
    /\ NoEvents

DirectCall(e, user_message, options) ==
    /\ ~args[e].called
    /\ GetResponseSend(e, user_message, options)
    /\ UNCHANGED <<env, phase, ev, ack, task, response, woken, result, replies, log>>

DirectNext ==
    \E e \in EventIds, user_message \in UserMessages, options \in OptionsPool :
        DirectCall(e, user_message, options)

DirectSpec == DirectInit /\ [][DirectNext]_vars

(***************************************************************************)
(* C18: the model named in the request is the override when get_response   *)
(* is given one and the default model otherwise, and the request has       *)
(* exactly one message, of role user, whose content is the user message    *)
(* as it was passed.                                                       *)
(***************************************************************************)
C18_RequestModelAndMessage ==
    \A e \in EventIds :
        args[e].called =>
            /\ Len(posts[e]) = 1
            /\ posts[e][1].body.model =
                  (IF args[e].options.some THEN args[e].options.val.model
                   ELSE LLMOptionsDefault.model)
            /\ posts[e][1].body.messages =
                  <<[role |-> "user", content |-> args[e].user_message]>>

\* One call was made without options and one with a model other than the
\* default one.
C18_Witness ==
    \E a, b \in EventIds :
        /\ args[a].called /\ ~args[a].options.some
        /\ posts[a][1].body.model = LLMOptionsDefault.model
        /\ args[b].called /\ args[b].options.some
        /\ args[b].options.val.model # LLMOptionsDefault.model
        /\ posts[b][1].body.model = args[b].options.val.model

(***************************************************************************)
(* C19: when the endpoint URL, the operator id or the bearer token is not  *)
(* set at startup, main ends before the server serves: the process serves  *)
(* only with all of them, no event is handled and no call is made          *)
(* otherwise, and every POST carries a URL, an operator id, a token and a  *)
(* model name.  (The default model name is a literal of the program, so it *)
(* is never absent.)                                                       *)
(***************************************************************************)
LlmConfig == {"API_URL", "OPERATOR_ID", "API_TOKEN"}

C19_NoServingWithoutConfig ==
    /\ phase = "serving" => LlmConfig \subseteq env
    /\ (phase # "starting" /\ ~(LlmConfig \subseteq env)) => phase = "aborted"
    /\ \A e \in EventIds :
          /\ (Delivered(e) \/ task[e] # "none" \/ Len(posts[e]) > 0 \/ ReplyCount(e) > 0)
                => phase = "serving" /\ LlmConfig \subseteq env
          /\ \A j \in DOMAIN posts[e] :
                /\ posts[e][j].url # ""
                /\ posts[e][j].operator_id # ""
                /\ posts[e][j].authorization[2] # ""
                /\ posts[e][j].body.model = LLMOptionsDefault.model

\* Only the bearer token was not set, and main has ended without serving.
C19_Witness ==
    /\ env = RequiredEnv \ {"API_TOKEN"}
    /\ phase = "aborted"
    /\ \A e \in EventIds : ~Delivered(e)

====
